---- MODULE Spec2Model ----
(***************************************************************************)
(* Model of the duels-analyzer synchronisation pipeline:                   *)
(*   src/src/processor.py  extract_duel_tokens, _is_duel                   *)
(*   src/src/cache.py      load_cache, save_cache, sync_data               *)
(*   src/src/api_client.py GeoguessrClient (the remote, as environment)    *)
(*                                                                         *)
(*   src/src/processor.py  process_game, _get_guess                        *)
(*   src/src/models.py     GameResult.to_flat_rows, RoundResult            *)
(*   src/src/analytics.py  the statistics over the flat table              *)
(*                                                                         *)
(* Four specifications:                                                    *)
(*   SpecExtract    extract_duel_tokens applied to bounded feed pages      *)
(*   Spec           a sequence of sync_data runs against one cache path    *)
(*   SpecGame       process_game applied to bounded raw match payloads     *)
(*   SpecAnalytics  the analytics functions applied to bounded tables      *)
(***************************************************************************)
EXTENDS Naturals, Integers, Sequences, FiniteSets, TLC

VARIABLES
    \* ---- extract_duel_tokens as a pure function (SpecExtract) ----
    ex_pc,            \* "idle" | "call" | "done"
    feed_entries,     \* argument: the list of raw feed entries
    limit,            \* argument: NoLimit or Limit(n)
    ex_result,        \* [raised, tokens]: what the call produced
    \* ---- process_game as a pure function (SpecGame) ----
    gm_pc,            \* "idle" | "call" | "done"
    game_data,        \* argument: the raw match payload
    gm_result,        \* [kind, game]: raised, None, or a GameResult
    gm_rows,          \* GameResult.to_flat_rows() of the returned game
    \* ---- the analytics functions (SpecAnalytics) ----
    an_pc,            \* "idle" | "call" | "done"
    an_df,            \* argument: the flat table [columns, rows]
    an_result,        \* per function: what the call produced
    \* ---- sync_data (Spec) ----
    cache_file,       \* the file at cache_path: [state, rows]
    pc,               \* position in sync_data
    runs,             \* number of sync_data runs started so far
    df_existing,      \* local df_existing (sequence of rows)
    remote_tokens,    \* local remote_tokens
    pagination_token, \* local pagination_token
    feed_page,        \* local feed_page/entries of the page read last
    tokens_to_fetch,  \* local tokens_to_fetch
    i,                \* loop index of the detail loop (tokens already processed)
    new_rows,         \* local new_rows
    outcomes,         \* per attempted token: what fetch + transform produced
    progress,         \* the values passed to progress_cb, in order
    log,              \* the run's remote requests and cache-store calls, in order
    returned,         \* what sync_data gave its caller: [kind, table, count]
    run_before              \* history: the feed and the keys of the run before

vars == <<ex_pc, feed_entries, limit, ex_result, gm_pc, game_data, gm_result,
          gm_rows, an_pc, an_df, an_result, cache_file, pc, runs, df_existing,
          remote_tokens, pagination_token, feed_page, tokens_to_fetch, i, new_rows,
          outcomes, progress, log, returned, run_before>>

exVars == <<ex_pc, feed_entries, limit, ex_result>>

gmVars == <<gm_pc, game_data, gm_result, gm_rows>>

anVars == <<an_pc, an_df, an_result>>

syncVars == <<cache_file, pc, runs, df_existing, remote_tokens, pagination_token,
              feed_page, tokens_to_fetch, i, new_rows, outcomes, progress, log,
              returned, run_before>>

(***************************************************************************)
(* Bounds of the model                                                     *)
(***************************************************************************)
\* entries per feed page handed to extract_duel_tokens
MaxEntries == 2
\* largest limit argument tried
MaxLimit == 3
\* sync_data runs against the same cache path
MaxRuns == 2
\* feed pages read in one run
MaxPages == 2
\* largest currentRoundNumber a raw match payload carries
MaxCurrentRound == 3
\* games in a table handed to the analytics functions, every field varied
MaxGames == 3
\* games in the tables that vary the outcomes only (one row per game)
LongGames == 6
\* duel tokens the feed lists in one run
MaxFeedTokens == 2

(***************************************************************************)
(* Values                                                                  *)
(***************************************************************************)
\* game tokens (opaque identifiers such as "64a5f0c2...")
Tokens == {"g1", "g2"}
\* a decoded payload without a "gameId" key
NoId == "no-gameId"
\* the limit argument: <<>> for limit=None, <<n>> for limit=n
NoLimit == <<>>

Limit(n) == <<n>>

\* a decoded JSON object of the feed: the keys _is_duel and the extractor read
Obj(mode, cgm, id) == [gameMode |-> mode, hasCGM |-> cgm, gameId |-> id]

NoObj == Obj("Classic", FALSE, NoId)

\* the objects tried: duels of both tokens, a duel without gameId, and the
\* three ways of failing the duel predicate
Objs ==
    { Obj("Duels", TRUE, "g1"), Obj("Duels", TRUE, "g2"), Obj("Duels", TRUE, NoId),
      Obj("Duels", FALSE, "g1"), Obj("Classic", TRUE, "g1"), Obj("Classic", FALSE, "g2") }

\* an element of a decoded list payload:
\*   "scalar"  not a dict;  "bare" a dict without a "payload" key;
\*   "wrap"    a dict whose "payload" is an object;
\*   "strwrap" a dict whose "payload" is not an object (a string)
Item(kind, obj) == [kind |-> kind, obj |-> obj]

Wrap(obj) == Item("wrap", obj)

Items ==
    { Item("scalar", NoObj), Item("bare", NoObj), Item("strwrap", NoObj) }
    \cup { Wrap(o) : o \in Objs }

\* the raw "payload" of a feed entry:
\*   "empty"       missing, null or ""          (falsy)
\*   "nonstring"   present but not a string     (json.loads raises TypeError)
\*   "undecodable" a string that is not JSON    (json.JSONDecodeError)
\*   "scalar"      JSON that is neither an object nor a list
\*   "dict"        a JSON object (obj)
\*   "list"        a JSON list (items)
Payload(kind, obj, items) == [kind |-> kind, obj |-> obj, items |-> items]

PDict(obj) == Payload("dict", obj, <<>>)

PList(items) == Payload("list", NoObj, items)

PEmpty == Payload("empty", NoObj, <<>>)

PUndecodable == Payload("undecodable", NoObj, <<>>)

PScalar == Payload("scalar", NoObj, <<>>)

PNonString == Payload("nonstring", NoObj, <<>>)

Duel(g) == Obj("Duels", TRUE, g)

Payloads ==
    { PEmpty, PUndecodable, PScalar, PNonString }
    \cup { PDict(o) : o \in Objs }
    \cup { PList(<<>>) }
    \cup { PList(<<it>>) : it \in Items }
    \cup { PList(<<Wrap(Obj("Classic", TRUE, "g1")), Wrap(Duel("g2"))>>),
           PList(<<Wrap(Duel("g1")), Wrap(Duel("g2"))>>),
           PList(<<Wrap(Duel("g2")), Wrap(Duel("g1"))>>),
           PList(<<Wrap(Duel("g1")), Wrap(Duel("g1"))>>),
           PList(<<Item("scalar", NoObj), Wrap(Duel("g1"))>>),
           PList(<<Wrap(Duel("g1")), Item("strwrap", NoObj)>>) }

\* the "time" of a feed entry, as sync_data reads it:
\*   "recent"  an ISO time on or after STOP_DATE
\*   "old"     an ISO time before STOP_DATE
\*   "missing" absent, null or ""
\*   "invalid" a string datetime.fromisoformat rejects (ValueError)
Times == {"recent", "old", "missing", "invalid"}

Entry(time, payload) == [time |-> time, payload |-> payload]

\* sequences over S of length 0..n
SeqUpTo(S, n) == UNION { [1..k -> S] : k \in 0..n }

(***************************************************************************)
(* processor.py                                                            *)
(***************************************************************************)
\* the result of a call: it raised, or it returned tokens; NoResult before it
NoResult == [raised |-> FALSE, tokens |-> <<"-">>]

Ok(tokens) == [raised |-> FALSE, tokens |-> tokens]

Raise == [raised |-> TRUE, tokens |-> <<>>]

\* the predicate without the competitiveGameMode test
_is_duel_mode_only(payload) == payload.gameMode = "Duels"

_is_duel(payload) == payload.gameMode = "Duels" /\ payload.hasCGM

\* Python truthiness of the limit argument
Truthy(lim) == lim # NoLimit /\ lim[1] # 0

RECURSIVE ListTokens(_, _)
\* the loop over a decoded list payload: item["payload"]["gameId"] of each
\* wrapper whose payload is a duel, appended to tokens
ListTokens(items, tokens) ==
    IF items = <<>> THEN Ok(tokens)
    ELSE LET item == Head(items) IN
         CASE item.kind = "wrap" ->
                IF _is_duel(item.obj)
                THEN IF item.obj.gameId = NoId
                     THEN Raise                     \* KeyError: 'gameId'
                     ELSE ListTokens(Tail(items), Append(tokens, item.obj.gameId))
                ELSE ListTokens(Tail(items), tokens)
           [] item.kind = "strwrap" -> Raise        \* AttributeError: no .get
           [] OTHER -> ListTokens(Tail(items), tokens)

\* the body of the loop over entries for one decoded payload
PayloadTokens(payload, tokens) ==
    CASE payload.kind = "dict" ->
           IF _is_duel(payload.obj)
           THEN IF payload.obj.gameId = NoId
                THEN Raise                          \* KeyError: 'gameId'
                ELSE Ok(Append(tokens, payload.obj.gameId))
           ELSE Ok(tokens)
      [] payload.kind = "list" -> ListTokens(payload.items, tokens)
      [] OTHER -> Ok(tokens)

RECURSIVE ExtractLoop(_, _, _)
ExtractLoop(entries, tokens, lim) ==
    IF entries = <<>> THEN Ok(tokens)
    ELSE LET payload_raw == Head(entries).payload IN
         CASE payload_raw.kind = "empty" -> ExtractLoop(Tail(entries), tokens, lim)
           [] payload_raw.kind = "nonstring" -> Raise   \* TypeError in json.loads
           [] payload_raw.kind = "undecodable" -> ExtractLoop(Tail(entries), tokens, lim)
           [] OTHER ->
                LET r == PayloadTokens(payload_raw, tokens) IN
                IF r.raised THEN Raise
                ELSE IF Truthy(lim) /\ Len(r.tokens) >= lim[1]
                     THEN Ok(SubSeq(r.tokens, 1, lim[1]))
                     ELSE ExtractLoop(Tail(entries), r.tokens, lim)

extract_duel_tokens(entries, lim) == ExtractLoop(entries, <<>>, lim)

(***************************************************************************)
(* Values of the synchronisation                                           *)
(***************************************************************************)
\* the "Date" column of a row: the instant as ISO-8601 text, and how the
\* value is held: "str" (the startTime string process_game copies), "json"
\* (a string of the cache file), "datetime" (a pandas Timestamp)
Date(repr, iso) == [repr |-> repr, iso |-> iso]

\* rounds[0].startTime of a version of a match's detail
DateOf(v) ==
    IF v = "v1" THEN "2024-01-05T10:00:00.000Z" ELSE "2024-01-06T10:00:00.000Z"

\* a flat record: the key columns "Game Id" and "Round Number", "Date", and
\* Val for the remaining columns (the match detail the row was built from)
Row(g, r, v) ==
    [GameId |-> g, RoundNumber |-> r, Val |-> v, Date |-> Date("str", DateOf(v))]

\* versions of a match's detail the remote can serve
Vals == {"v1", "v2"}

\* the round numbers of the rounds process_game emits for one match:
\* no round, one round, two rounds, a repeated roundNumber
RoundLists == { <<>>, <<1>>, <<1, 2>>, <<1, 1>> }

\* GameResult.to_flat_rows: one row per round, each with the match's fields
to_flat_rows(game_id, val, rounds) ==
    [k \in 1..Len(rounds) |-> Row(game_id, rounds[k], val)]

\* what get_game_details + process_game + to_flat_rows produce for one token:
\*   "fetch_error"     get_game_details raised
\*   "transform_error" process_game raised
\*   "null"            process_game returned None
\*   "game"            a GameResult, flattened to rows
Outcome(kind, rows) == [kind |-> kind, rows |-> rows]

DetailOutcomes ==
    { Outcome("fetch_error", <<>>), Outcome("transform_error", <<>>),
      Outcome("null", <<>>) }
    \cup { Outcome("game", to_flat_rows(g, v, rs)) :
             g \in Tokens, v \in Vals, rs \in RoundLists }

\* the cache file
Absent == [state |-> "absent", rows |-> <<>>]

Corrupt == [state |-> "corrupt", rows |-> <<>>]

Data(rows) == [state |-> "data", rows |-> rows]

\* feed_page.get("paginationToken"): a cursor, or none (absent, null, "")
NoCursor == "None"

Cursors == {"c1", "c2"}

\* a feed page as get_feed_page returns it; NoPage before the first request,
\* PageError when the request raised
Page(entries, cursor) == [kind |-> "page", entries |-> entries, paginationToken |-> cursor]

NoPage == [kind |-> "none", entries |-> <<>>, paginationToken |-> NoCursor]

PageError == [kind |-> "error", entries |-> <<>>, paginationToken |-> NoCursor]

\* the entries the remote feed is made of in the synchronisation runs
SyncEntries ==
    { Entry("recent", PDict(Duel("g1"))),
      Entry("recent", PDict(Duel("g2"))),
      Entry("old", PDict(Duel("g1"))),
      Entry("missing", PList(<<Wrap(Obj("Classic", TRUE, "g1")), Wrap(Duel("g2"))>>)),
      Entry("invalid", PUndecodable),
      Entry("recent", PDict(Duel(NoId))) }

SyncPages ==
    { Page(es, c) : es \in SeqUpTo(SyncEntries, MaxEntries), c \in Cursors \cup {NoCursor} }

\* what sync_data gave its caller
NoReturn == [kind |-> "none", table |-> <<>>, count |-> 0]

Raised == [kind |-> "raised", table |-> <<>>, count |-> 0]

\* the return counting the rows the table holds
Return_rows(table, count) == [kind |-> "value", table |-> table, count |-> Len(table)]

Return(table, count) == [kind |-> "value", table |-> table, count |-> count]

\* a value passed to progress_cb: the fraction num/den
Frac(num, den) == [num |-> num, den |-> den]

(***************************************************************************)
(* cache.py                                                                *)
(***************************************************************************)
\* df.to_json(orient="records", date_format="iso"): a Timestamp is written
\* as ISO text, a string as it is
to_json(df) ==
    [k \in 1..Len(df) |-> [df[k] EXCEPT !.Date = Date("json", @.iso)]]

\* pd.read_json and pd.to_datetime(df["Date"]): the strings of the "Date"
\* column become Timestamps
read_json(rows) ==
    [k \in 1..Len(rows) |-> [rows[k] EXCEPT !.Date = Date("datetime", @.iso)]]

\* the cache never read
load_cache_nothing(file) == <<>>

\* load_cache: the rows of the file; the empty table when the file is absent
\* or cannot be read
load_cache(file) == IF file.state = "data" THEN read_json(file.rows) ELSE <<>>

\* the ids of the cache never collected
existing_ids_none(df) == {}

\* set(df_existing["Game Id"].unique())
existing_ids(df) == { df[k].GameId : k \in 1..Len(df) }

\* the remote tokens taken without the filter
FilterNew_all(tokens, ids) == tokens

\* [t for t in remote_tokens if t not in existing_ids]
FilterNew(tokens, ids) == SelectSeq(tokens, LAMBDA t : t \notin ids)

SameKey(a, b) == a.GameId = b.GameId /\ a.RoundNumber = b.RoundNumber

RECURSIVE DropLoop(_, _)
DropLoop(df, kept) ==
    IF df = <<>> THEN kept
    ELSE IF \E k \in 1..Len(kept) : SameKey(kept[k], Head(df))
         THEN DropLoop(Tail(df), kept)
         ELSE DropLoop(Tail(df), Append(kept, Head(df)))

RECURSIVE DropLoop_last(_)
DropLoop_last(df) ==
    IF df = <<>> THEN <<>>
    ELSE IF \E k \in 2..Len(df) : SameKey(df[k], Head(df))
         THEN DropLoop_last(Tail(df))
         ELSE <<Head(df)>> \o DropLoop_last(Tail(df))

\* the merge keeping the last row of every key
drop_duplicates_last(df) == DropLoop_last(df)

\* the merge without the removal of duplicates
drop_duplicates_none(df) == df

\* df.drop_duplicates(subset=["Game Id", "Round Number"]): the first row of
\* every key, in order
drop_duplicates(df) == DropLoop(df, <<>>)

\* pd.concat([df_existing, df_new]) if not df_existing.empty else df_new
Combined(existing, new) == IF existing # <<>> THEN existing \o new ELSE new

\* how often the event op occurs in the log l
CountOf(op, l) == Cardinality({ k \in 1..Len(l) : l[k] = op })

(***************************************************************************)
(* Spec: sync_data, run after run against one cache path                   *)
(***************************************************************************)
ExtractIdle ==
    /\ ex_pc = "idle"
    /\ feed_entries = <<>>
    /\ limit = NoLimit
    /\ ex_result = NoResult

GameIdle ==
    /\ gm_pc = "idle"
    /\ game_data = <<>>
    /\ gm_result = NoResult
    /\ gm_rows = <<>>

AnalyticsIdle ==
    /\ an_pc = "idle"
    /\ an_df = <<>>
    /\ an_result = <<>>

\* what a run remembers of the run before it: after a clean run the tokens
\* its feed listed and the keys of the table it returned
NoPrev == [clean |-> FALSE, tokens |-> <<>>, keys |-> {}]

SyncIdle ==
    /\ cache_file = Absent
    /\ pc = "idle"
    /\ runs = 0
    /\ df_existing = <<>>
    /\ remote_tokens = <<>>
    /\ pagination_token = NoCursor
    /\ feed_page = NoPage
    /\ tokens_to_fetch = <<>>
    /\ i = 0
    /\ new_rows = <<>>
    /\ outcomes = <<>>
    /\ progress = <<>>
    /\ log = <<>>
    /\ returned = NoReturn
    /\ run_before = NoPrev

Init == ExtractIdle /\ GameIdle /\ AnalyticsIdle /\ SyncIdle

\* the (Game Id, Round Number) keys of a table
KeysOf(df) == { <<df[k].GameId, df[k].RoundNumber>> : k \in 1..Len(df) }

\* the run that has just ended found unseen tokens, every token it attempted
\* gave at least one flat row with the token as its Game Id, and it wrote
\* the cache
CleanRun ==
    /\ pc = "idle"
    /\ returned.kind = "value"
    /\ tokens_to_fetch # <<>>
    /\ log[Len(log)] = "to_json"
    /\ \A k \in 1..Len(outcomes) :
          /\ outcomes[k].kind = "game"
          /\ \E j \in 1..Len(outcomes[k].rows) :
                outcomes[k].rows[j].GameId = outcomes[k].token

RunBefore ==
    IF CleanRun
    THEN [clean |-> TRUE, tokens |-> remote_tokens, keys |-> KeysOf(returned.table)]
    ELSE NoPrev

\* the locals of a fresh call
FreshLocals ==
    /\ remote_tokens' = <<>>
    /\ pagination_token' = NoCursor
    /\ feed_page' = NoPage
    /\ tokens_to_fetch' = <<>>
    /\ i' = 0
    /\ new_rows' = <<>>
    /\ outcomes' = <<>>
    /\ progress' = <<>>

\* the failure of get_player_info swallowed: the run goes on
AuthFails_swallowed ==
    /\ pc = "idle"
    /\ runs < MaxRuns
    /\ runs' = runs + 1
    /\ FreshLocals
    /\ log' = <<"get_player_info_failed">>
    /\ df_existing' = load_cache(cache_file)
    /\ returned' = NoReturn
    /\ pc' = "paginate"
    /\ run_before' = RunBefore
    /\ UNCHANGED <<cache_file, exVars, gmVars, anVars>>

\* sync_data is called and get_player_info raises: the call raises at once
AuthFails ==
    /\ pc = "idle"
    /\ runs < MaxRuns
    /\ runs' = runs + 1
    /\ FreshLocals
    /\ log' = <<"get_player_info_failed">>
    /\ df_existing' = <<>>
    /\ returned' = Raised
    /\ pc' = "idle"
    /\ run_before' = RunBefore
    /\ UNCHANGED <<cache_file, exVars, gmVars, anVars>>

\* sync_data is called, get_player_info answers, the cache is loaded
AuthOk ==
    /\ pc = "idle"
    /\ runs < MaxRuns
    /\ runs' = runs + 1
    /\ FreshLocals
    /\ log' = <<"get_player_info">>
    /\ df_existing' = load_cache(cache_file)
    /\ returned' = NoReturn
    /\ pc' = "paginate"
    /\ run_before' = RunBefore
    /\ UNCHANGED <<cache_file, exVars, gmVars, anVars>>

\* whether the loop goes on to another page after this one
Continues(page, r) ==
    /\ page.kind = "page"
    /\ page.entries # <<>>
    /\ ~r.raised
    /\ page.entries[1].time # "old"
    /\ page.paginationToken # NoCursor

\* one turn of the pagination loop on the answer `page` of get_feed_page
PageTurn(page) ==
    LET r == IF page.kind = "page" THEN extract_duel_tokens(page.entries, NoLimit)
             ELSE Raise
        extended == page.kind = "page" /\ page.entries # <<>> /\ ~r.raised
        reachedCursor == extended /\ page.entries[1].time # "old"
    IN /\ feed_page' = page
       /\ log' = Append(log, "get_feed_page")
       /\ remote_tokens' = IF extended THEN remote_tokens \o r.tokens ELSE remote_tokens
       /\ pagination_token' =
              IF reachedCursor THEN page.paginationToken ELSE pagination_token
       /\ pc' = IF Continues(page, r) THEN "paginate" ELSE "diff"
       /\ Len(remote_tokens') <= MaxFeedTokens
       /\ CountOf("get_feed_page", log') = MaxPages => pc' = "diff"
       /\ UNCHANGED <<cache_file, runs, df_existing, tokens_to_fetch, i, new_rows,
                      outcomes, progress, returned, run_before, exVars, gmVars, anVars>>

\* the pagination loop without its try/except: a failing request ends the run
FetchPageFails_fatal ==
    /\ pc = "paginate"
    /\ feed_page' = PageError
    /\ log' = Append(log, "get_feed_page")
    /\ returned' = Raised
    /\ pc' = "idle"
    /\ UNCHANGED <<cache_file, runs, df_existing, remote_tokens, pagination_token,
                   tokens_to_fetch, i, new_rows, outcomes, progress, run_before,
                   exVars, gmVars, anVars>>

\* get_feed_page(pagination_token) raises: the loop ends
FetchPageFails ==
    /\ pc = "paginate"
    /\ PageTurn(PageError)

\* get_feed_page(pagination_token) answers with a page
FetchPage ==
    /\ pc = "paginate"
    /\ \E page \in SyncPages : PageTurn(page)

\* no unseen token: the existing table is returned as it is
DiffNothingNew ==
    /\ pc = "diff"
    /\ FilterNew(remote_tokens, existing_ids(df_existing)) = <<>>
    /\ tokens_to_fetch' = <<>>
    /\ returned' = Return(df_existing, 0)
    /\ pc' = "idle"
    /\ UNCHANGED <<cache_file, runs, df_existing, remote_tokens, pagination_token,
                   feed_page, i, new_rows, outcomes, progress, log, run_before, exVars, gmVars, anVars>>

\* unseen tokens: on to the detail loop
DiffNew ==
    /\ pc = "diff"
    /\ FilterNew(remote_tokens, existing_ids(df_existing)) # <<>>
    /\ tokens_to_fetch' = FilterNew(remote_tokens, existing_ids(df_existing))
    /\ feed_page' = NoPage
    /\ pc' = "fetch"
    /\ UNCHANGED <<cache_file, runs, df_existing, remote_tokens, pagination_token,
                   i, new_rows, outcomes, progress, log, returned, run_before, exVars, gmVars, anVars>>

\* the report counting the token about to be processed as done
LoopProgress_ahead(done, total) == Frac(done + 1, total)

\* the value the loop reports before token number i+1
LoopProgress(done, total) == Frac(done, total)

\* the detail loop without its try/except: a failing token ends the run
FetchDetail_unguarded ==
    /\ pc = "fetch"
    /\ i < Len(tokens_to_fetch)
    /\ progress' = Append(progress, LoopProgress(i, Len(tokens_to_fetch)))
    /\ log' = Append(log, "get_game_details")
    /\ \E o \in DetailOutcomes :
          /\ outcomes' = Append(outcomes,
                 [token |-> tokens_to_fetch[i + 1], kind |-> o.kind, rows |-> o.rows])
          /\ new_rows' = IF o.kind = "game" THEN new_rows \o o.rows ELSE new_rows
          /\ IF o.kind \in {"fetch_error", "transform_error"}
             THEN pc' = "idle" /\ returned' = Raised
             ELSE /\ pc' = IF i + 1 = Len(tokens_to_fetch) THEN "merge" ELSE "fetch"
                  /\ UNCHANGED returned
    /\ i' = i + 1
    /\ UNCHANGED <<cache_file, runs, df_existing, remote_tokens, pagination_token,
                   feed_page, tokens_to_fetch, run_before, exVars, gmVars, anVars>>

\* one turn of the detail loop: report, fetch, transform, collect
FetchDetail ==
    /\ pc = "fetch"
    /\ i < Len(tokens_to_fetch)
    /\ progress' = Append(progress, LoopProgress(i, Len(tokens_to_fetch)))
    /\ log' = Append(log, "get_game_details")
    /\ \E o \in DetailOutcomes :
          /\ outcomes' = Append(outcomes,
                 [token |-> tokens_to_fetch[i + 1], kind |-> o.kind, rows |-> o.rows])
          /\ new_rows' = IF o.kind = "game" THEN new_rows \o o.rows ELSE new_rows
    /\ i' = i + 1
    /\ pc' = IF i + 1 = Len(tokens_to_fetch) THEN "merge" ELSE "fetch"
    /\ UNCHANGED <<cache_file, runs, df_existing, remote_tokens, pagination_token,
                   feed_page, tokens_to_fetch, returned, run_before, exVars, gmVars, anVars>>

\* lines 111-116: the last progress report, and the merged table
df_combined == drop_duplicates(Combined(df_existing, new_rows))

MergeCommon ==
    /\ pc = "merge"
    /\ progress' = Append(progress, Frac(1, 1))
    /\ returned' = Return(df_combined, Len(tokens_to_fetch))
    /\ pc' = "idle"
    /\ UNCHANGED <<runs, df_existing, remote_tokens, pagination_token, feed_page,
                   tokens_to_fetch, i, new_rows, outcomes, run_before, exVars, gmVars, anVars>>

\* save_cache of an empty table returns without writing
MergeNothingToSave ==
    /\ MergeCommon
    /\ df_combined = <<>>
    /\ log' = Append(log, "save_cache")
    /\ UNCHANGED cache_file

\* the return without the call of save_cache
MergeSaved_skipped ==
    /\ MergeCommon
    /\ df_combined # <<>>
    /\ UNCHANGED <<log, cache_file>>

\* save_cache writes the merged table
MergeSaved ==
    /\ MergeCommon
    /\ df_combined # <<>>
    /\ log' = log \o <<"save_cache", "to_json">>
    /\ cache_file' = Data(to_json(df_combined))

\* df.to_json raises and save_cache lets the exception through
MergeSaveFails_propagated ==
    /\ pc = "merge"
    /\ df_combined # <<>>
    /\ progress' = Append(progress, Frac(1, 1))
    /\ log' = log \o <<"save_cache", "to_json_failed">>
    /\ cache_file' \in {cache_file, Corrupt}
    /\ returned' = Raised
    /\ pc' = "idle"
    /\ UNCHANGED <<runs, df_existing, remote_tokens, pagination_token, feed_page,
                   tokens_to_fetch, i, new_rows, outcomes, run_before, exVars, gmVars, anVars>>

\* df.to_json raises: logged and swallowed; the file is as before, or is
\* left partly written
MergeSaveFails ==
    /\ MergeCommon
    /\ df_combined # <<>>
    /\ log' = log \o <<"save_cache", "to_json_failed">>
    /\ cache_file' \in {cache_file, Corrupt}

Next ==
    \/ AuthFails
    \/ AuthOk
    \/ FetchPageFails
    \/ FetchPage
    \/ DiffNothingNew
    \/ DiffNew
    \/ FetchDetail
    \/ MergeNothingToSave
    \/ MergeSaved
    \/ MergeSaveFails

Spec == Init /\ [][Next]_vars

(***************************************************************************)
(* SpecExtract: extract_duel_tokens on every bounded page                  *)
(***************************************************************************)
Limits == {NoLimit} \cup { Limit(n) : n \in 0..MaxLimit }

ExtractEntries == { Entry("recent", p) : p \in Payloads }

ExtractInit ==
    /\ ex_pc = "call"
    /\ feed_entries \in SeqUpTo(ExtractEntries, MaxEntries)
    /\ limit \in Limits
    /\ ex_result = NoResult
    /\ GameIdle
    /\ AnalyticsIdle
    /\ SyncIdle

ExtractCall ==
    /\ ex_pc = "call"
    /\ ex_result' = extract_duel_tokens(feed_entries, limit)
    /\ ex_pc' = "done"
    /\ UNCHANGED <<feed_entries, limit>>
    /\ UNCHANGED <<syncVars, gmVars, anVars>>

ExtractNext == ExtractCall

SpecExtract == ExtractInit /\ [][ExtractNext]_vars

(***************************************************************************)
(* Values of process_game: the raw match payload                           *)
(***************************************************************************)
\* the my_player_id argument, and another player's id
MyId == "me"

OtherId == "opp"

\* an Optional number: <<>> for a missing key or null, <<n>> for the value n
None == <<>>

Some(n) == <<n>>

\* a guess dict of a player: the keys process_game reads
Guess(rn, score, distance, lat, lng) ==
    [found |-> TRUE, roundNumber |-> rn, score |-> score,
     distance |-> distance, lat |-> lat, lng |-> lng]

\* the default {} of _get_guess: a dict without any key
EmptyGuess ==
    [found |-> FALSE, roundNumber |-> 0, score |-> 0, distance |-> 0,
     lat |-> 0, lng |-> 0]

\* dict.get(key, default) on a guess dict
Get(g, key, default) == IF g.found THEN g[key] ELSE default

\* the guesses lists tried: none, round 1 only, rounds 2 and 1 (a zero score)
GuessLists ==
    { <<>>,
      << Guess(1, 5, 7000, 48, 2) >>,
      << Guess(2, 5, 7000, 48, 2), Guess(1, 0, 3000, 10, 20) >> }

\* a player dict: playerId, guesses, and the three places a rating is read
\* from (progressChange.competitiveProgress.ratingAfter,
\* progressChange.rankedSystemProgress.ratingAfter, rating)
Player(id, guesses, competitive, ranked, rating) ==
    [playerId |-> id, guesses |-> guesses, competitive |-> competitive,
     ranked |-> ranked, rating |-> rating]

\* a team dict: its players and its health
Team(players, health) == [players |-> players, health |-> health]

\* health values: missing, below zero, zero, above zero
Healths == { None, Some(0 - 1), Some(0), Some(5) }

\* the (competitive, ranked, rating) triples tried besides the plain one
RatingShapes ==
    { <<None, None, None>>, <<None, None, Some(0)>>, <<None, None, Some(900)>>,
      <<None, Some(800), Some(900)>>, <<Some(700), Some(800), Some(900)>> }

PlainRating == <<Some(700), None, Some(0)>>

PlayerLists ==
    { <<>> }
    \cup { << Player(id, gs, PlainRating[1], PlainRating[2], PlainRating[3]) >> :
             id \in {MyId, OtherId}, gs \in GuessLists }

RatedPlayerLists ==
    { << Player(id, <<>>, r[1], r[2], r[3]) >> :
        id \in {MyId, OtherId}, r \in RatingShapes }

Teams ==
    { Team(ps, h) : ps \in PlayerLists, h \in Healths }
    \cup { Team(ps, Some(5)) : ps \in RatedPlayerLists }

\* the "teams" lists tried: none, one, two, and two lists of three teams
TeamLists ==
    SeqUpTo(Teams, 2)
    \cup { << Team(<< Player(MyId, <<>>, None, None, None) >>, Some(5)),
              Team(<< Player(OtherId, <<>>, None, None, None) >>, Some(0)),
              t >> : t \in { Team(<<>>, None),
                             Team(<< Player(OtherId, <<>>, None, None, None) >>,
                                  Some(5)) } }

\* a round dict: roundNumber (None when the key is missing) and startTime
\* ("None" when the key is missing)
RawRound(rn, start) == [roundNumber |-> rn, startTime |-> start]

NoTime == "None"

RawRoundLists ==
    { <<>>,
      << RawRound(Some(1), "2024-01-05T10:00:00.000Z") >>,
      << RawRound(Some(1), NoTime) >>,
      << RawRound(Some(1), "2024-01-05T10:00:00.000Z"),
         RawRound(Some(2), "2024-01-05T10:01:00.000Z") >>,
      << RawRound(Some(1), "2024-01-05T10:00:00.000Z"),
         RawRound(Some(1), "2024-01-05T10:01:00.000Z") >>,
      << RawRound(None, "2024-01-05T10:00:00.000Z"),
         RawRound(None, "2024-01-05T10:01:00.000Z") >> }

\* game_data.get("gameId"): missing, the empty string, an id
GameIds == { NoId, "", "g1" }

\* game_data["currentRoundNumber"]: missing, or a number
CurrentRounds == { None } \cup { Some(n) : n \in 0..MaxCurrentRound }

\* the raw match payload
GameData(teams, id, rounds, crn) ==
    [teams |-> teams, gameId |-> id, rounds |-> rounds,
     currentRoundNumber |-> crn]

(***************************************************************************)
(* processor.py: process_game                                              *)
(***************************************************************************)
\* the GameResult dataclass (the fields taken from teams, rounds and gameId)
GameResult(id, date, opp, my_r, opp_r, won, my_h, opp_h, rounds) ==
    [game_id |-> id, date |-> date, opponent_id |-> opp,
     your_rating |-> my_r, opponent_rating |-> opp_r,
     game_won |-> won, your_health |-> my_h, opp_health |-> opp_h,
     rounds |-> rounds]

NoGame == GameResult("", NoTime, "", None, None, "None", None, None, <<>>)

\* what a call of process_game produced
GameRaised == [kind |-> "raised", game |-> NoGame]

GameNull == [kind |-> "null", game |-> NoGame]

GameOk(game) == [kind |-> "game", game |-> game]

\* the first guess of the team's first player, whatever its round
_get_guess_any(team, round_number) ==
    IF team.players[1].guesses = <<>> THEN EmptyGuess
    ELSE team.players[1].guesses[1]

\* _get_guess: the first guess of the team's first player whose roundNumber
\* is round_number, else {}
_get_guess(team, round_number) ==
    LET guesses == team.players[1].guesses
        hits == { k \in 1..Len(guesses) : guesses[k].roundNumber = round_number }
    IN  IF hits = {} THEN EmptyGuess
        ELSE guesses[CHOOSE k \in hits : \A j \in hits : k <= j]

\* the rating taken from the raw field whenever it is present, 0 included
_extract_rating_zero(team) ==
    LET player == team.players[1]
    IN  IF player.competitive # None THEN player.competitive
        ELSE IF player.ranked # None THEN player.ranked
        ELSE player.rating

\* _extract_rating on a team that has a first player
_extract_rating(team) ==
    LET player == team.players[1]
    IN  IF player.competitive # None THEN player.competitive
        ELSE IF player.ranked # None THEN player.ranked
        ELSE IF player.rating # None /\ player.rating # Some(0) THEN player.rating
        ELSE None

\* lines 130-139 with the strict comparison of the loser's health
game_won_strict(my_health, opp_health) ==
    IF my_health # None /\ opp_health # None
    THEN IF my_health[1] > 0 /\ opp_health[1] < 0 THEN "True"
         ELSE IF opp_health[1] > 0 /\ my_health[1] < 0 THEN "False"
         ELSE "None"
    ELSE "None"

\* lines 130-139: the outcome of the game from the two healths
game_won(my_health, opp_health) ==
    IF my_health # None /\ opp_health # None
    THEN IF my_health[1] > 0 /\ opp_health[1] <= 0 THEN "True"
         ELSE IF opp_health[1] > 0 /\ my_health[1] <= 0 THEN "False"
         ELSE "None"
    ELSE "None"

\* the RoundResult dataclass (the fields taken from the two guesses)
RoundResult(rn, my_guess, opp_guess) ==
    [round_number |-> rn,
     your_lat |-> Get(my_guess, "lat", 0),
     your_lng |-> Get(my_guess, "lng", 0),
     your_distance_km |-> Get(my_guess, "distance", 0) \div 1000,
     your_score |-> Get(my_guess, "score", 0),
     opp_lat |-> Get(opp_guess, "lat", 0),
     opp_lng |-> Get(opp_guess, "lng", 0),
     opp_distance_km |-> Get(opp_guess, "distance", 0) \div 1000,
     opp_score |-> Get(opp_guess, "score", 0)]

Min(a, b) == IF a <= b THEN a ELSE b

\* lines 156-191: range(current_round_num) cut at len(rounds_data)
RoundsLoop(d, my_team, opp_team) ==
    LET rounds_data == d.rounds
        current_round_num == IF d.currentRoundNumber = None
                             THEN Len(rounds_data)
                             ELSE d.currentRoundNumber[1]
    IN  [k \in 1..Min(current_round_num, Len(rounds_data)) |->
           LET rnd == rounds_data[k]
               round_num == IF rnd.roundNumber = None THEN k
                            ELSE rnd.roundNumber[1]
           IN  RoundResult(round_num, _get_guess(my_team, round_num),
                           _get_guess(opp_team, round_num))]

\* process_game (teams are indexed from 1 here): None for fewer than two
\* teams; teams[0]["players"][0] raises IndexError when the first team has no
\* player; None without a gameId; opp_team["players"][0] and _extract_rating
\* raise IndexError when the other team has no player
process_game(d, my_player_id) ==
    IF Len(d.teams) < 2 THEN GameNull
    ELSE IF d.teams[1].players = <<>> THEN GameRaised
    ELSE IF d.gameId = NoId \/ d.gameId = "" THEN GameNull
    ELSE IF d.teams[2].players = <<>> THEN GameRaised
    ELSE LET my_team_idx == IF d.teams[1].players[1].playerId = my_player_id
                            THEN 1 ELSE 2
             my_team == d.teams[my_team_idx]
             opp_team == d.teams[3 - my_team_idx]
         IN  GameOk(GameResult(d.gameId,
                    IF d.rounds # <<>> THEN d.rounds[1].startTime ELSE NoTime,
                    opp_team.players[1].playerId,
                    _extract_rating(my_team), _extract_rating(opp_team),
                    game_won(my_team.health, opp_team.health),
                    my_team.health, opp_team.health,
                    RoundsLoop(d, my_team, opp_team)))

(***************************************************************************)
(* models.py                                                               *)
(***************************************************************************)
\* RoundResult.round_won
round_won(rnd) == rnd.your_score > rnd.opp_score

\* RoundResult.score_difference
score_difference(rnd) == rnd.your_score - rnd.opp_score

\* GameResult.to_flat_rows: one dict per round, the fields of the game copied
\* into each
GameResult_to_flat_rows(game) ==
    [k \in 1..Len(game.rounds) |->
       LET rnd == game.rounds[k]
       IN  [GameId |-> game.game_id, Date |-> game.date,
            RoundNumber |-> rnd.round_number,
            OpponentId |-> game.opponent_id,
            YourRating |-> game.your_rating,
            OpponentRating |-> game.opponent_rating,
            YourLatitude |-> rnd.your_lat, YourLongitude |-> rnd.your_lng,
            YourDistance |-> rnd.your_distance_km, YourScore |-> rnd.your_score,
            OpponentLatitude |-> rnd.opp_lat, OpponentLongitude |-> rnd.opp_lng,
            OpponentDistance |-> rnd.opp_distance_km,
            OpponentScore |-> rnd.opp_score,
            ScoreDifference |-> score_difference(rnd),
            RoundWon |-> round_won(rnd),
            GameWon |-> game.game_won,
            YourHealth |-> game.your_health,
            OpponentHealth |-> game.opp_health]]

(***************************************************************************)
(* SpecGame: process_game on every bounded raw payload, then to_flat_rows  *)
(***************************************************************************)
GameInit ==
    /\ gm_pc = "call"
    /\ game_data \in { GameData(ts, id, rs, crn) :
                         ts \in TeamLists, id \in GameIds,
                         rs \in RawRoundLists, crn \in CurrentRounds }
    /\ gm_result = NoResult
    /\ gm_rows = <<>>
    /\ ExtractIdle
    /\ AnalyticsIdle
    /\ SyncIdle

GameCall ==
    /\ gm_pc = "call"
    /\ gm_result' = process_game(game_data, MyId)
    /\ gm_pc' = IF gm_result'.kind = "game" THEN "flatten" ELSE "done"
    /\ UNCHANGED <<game_data, gm_rows>>
    /\ UNCHANGED <<exVars, anVars, syncVars>>

GameFlatten ==
    /\ gm_pc = "flatten"
    /\ gm_rows' = GameResult_to_flat_rows(gm_result.game)
    /\ gm_pc' = "done"
    /\ UNCHANGED <<game_data, gm_result>>
    /\ UNCHANGED <<exVars, anVars, syncVars>>

GameNext == GameCall \/ GameFlatten

SpecGame == GameInit /\ [][GameNext]_vars

(***************************************************************************)
(* Values of the analytics: the flat table                                 *)
(***************************************************************************)
\* a DataFrame: whether it has the columns of the flat rows, and its rows.
\* pd.DataFrame() and pd.DataFrame([]) have no columns and no rows
Table(columns, rows) == [columns |-> columns, rows |-> rows]

\* the empty table as load_cache returns it for an absent cache
EmptyFrame == Table(FALSE, <<>>)

\* a flat row: the columns the analytics functions group, sort and reduce by.
\* Game Ids are numbered by their lexical order, dates by their order in time
ARow(g, date, rn, country, opp, opp_country, won, rating, score) ==
    [GameId |-> g, Date |-> date, RoundNumber |-> rn, Country |-> country,
     OpponentId |-> opp, OpponentCountry |-> opp_country, GameWon |-> won,
     YourRating |-> rating, YourScore |-> score]

\* "Game Won" of a game: True, False, or None for an unfinished game
Outcomes == {"True", "False", "None"}

\* the opponent and the number of round rows of a game
Shapes == { <<"X", 1>>, <<"X", 2>>, <<"Y", 1>> }

\* the rows of game g: one per round, the game's fields repeated in each; a
\* game against Y has no rating
GameRows(g, date, won, shape) ==
    [rn \in 1..shape[2] |->
       ARow(g, date, rn, IF rn = 1 THEN "FR" ELSE "DE", shape[1],
            IF shape[1] = "X" THEN "FR" ELSE "US", won,
            IF shape[1] = "X" THEN Some(1000 + 7 * date) ELSE None,
            IF rn = 1 THEN 5 ELSE 0)]

\* the permutations of 1..n
Perms(n) == { f \in [1..n -> 1..n] : \A a, b \in 1..n : f[a] = f[b] => a = b }

\* the rows of games 1..n in the order of their ids
RECURSIVE Blocks(_, _, _, _)
Blocks(n, dates, won, shape) ==
    IF n = 0 THEN <<>>
    ELSE Blocks(n - 1, dates, won, shape)
           \o GameRows(n, dates[n], won[n], shape[n])

Reverse(sq) == [k \in 1..Len(sq) |-> sq[Len(sq) + 1 - k]]

\* tables of n games: every outcome, opponent and row count per game, the
\* dates in every order against the ids, the rows in id order or reversed
TablesOf(n) ==
    { Table(TRUE, IF rev THEN Reverse(Blocks(n, d, w, sh))
                  ELSE Blocks(n, d, w, sh)) :
        d \in Perms(n), w \in [1..n -> Outcomes], sh \in [1..n -> Shapes],
        rev \in BOOLEAN }

\* tables of LongGames finished games, one row each, played in id order
LongTables ==
    { Table(TRUE, Blocks(LongGames, [k \in 1..LongGames |-> k], w,
                         [k \in 1..LongGames |-> <<"X", 1>>])) :
        w \in [1..LongGames -> {"True", "False"}] }

AnalyticsTables ==
    {EmptyFrame} \cup UNION { TablesOf(n) : n \in 0..MaxGames } \cup LongTables

(***************************************************************************)
(* analytics.py                                                            *)
(***************************************************************************)
\* what a call produced: KeyError raised by pandas, or a value
KeyError(fn) == [fn |-> fn, raised |-> TRUE, value |-> <<>>]

Value(fn, v) == [fn |-> fn, raised |-> FALSE, value |-> v]

\* pandas' missing value in a column: None in "Game Won" and "Your Rating";
\* "Date" and "Opponent Id" have no missing value in the tables tried
IsNull(col, v) ==
    CASE col = "GameWon" -> v = "None"
      [] col = "YourRating" -> v = None
      [] OTHER -> FALSE

Null(col) ==
    CASE col = "GameWon" -> "None"
      [] col = "YourRating" -> None
      [] col = "Date" -> 0
      [] OTHER -> ""

\* df.sort_values("Date") (rows of equal date keep their order)
RECURSIVE sort_values(_)
sort_values(rows) ==
    IF rows = <<>> THEN <<>>
    ELSE LET k == CHOOSE a \in 1..Len(rows) :
                    \A b \in 1..Len(rows) :
                        \/ rows[a].Date < rows[b].Date
                        \/ rows[a].Date = rows[b].Date /\ a <= b
         IN  <<rows[k]>>
               \o sort_values([j \in 1..(Len(rows) - 1) |->
                                 IF j < k THEN rows[j] ELSE rows[j + 1]])

\* the sorted sequence of a set of numbers
RECURSIVE Ascending(_)
Ascending(S) ==
    IF S = {} THEN <<>>
    ELSE LET least == CHOOSE a \in S : \A b \in S : a <= b
         IN  <<least>> \o Ascending(S \ {least})

\* the group keys of groupby("Game Id"): the distinct ids, sorted by id
\* (groupby sorts its keys, sort=True being the default)
GroupKeys(rows) == Ascending({ rows[k].GameId : k \in 1..Len(rows) })

\* GroupBy.first() of one column for one group: the first value of the
\* group's rows that is not missing, missing when there is none
First(rows, g, col) ==
    LET hits == { k \in 1..Len(rows) :
                    rows[k].GameId = g /\ ~IsNull(col, rows[k][col]) }
    IN  IF hits = {} THEN Null(col)
        ELSE rows[CHOOSE k \in hits : \A j \in hits : k <= j][col]

\* rows.groupby("Game Id").first(): one entry per game, in the order of the
\* group keys
groupby_first(rows) ==
    LET keys == GroupKeys(rows)
    IN  [k \in 1..Len(keys) |->
           [GameId |-> keys[k],
            Date |-> First(rows, keys[k], "Date"),
            OpponentId |-> First(rows, keys[k], "OpponentId"),
            GameWon |-> First(rows, keys[k], "GameWon"),
            YourRating |-> First(rows, keys[k], "YourRating")]]

\* dropna on one column
dropna(games, col) == SelectSeq(games, LAMBDA g : ~IsNull(col, g[col]))

\* the number of True in a sequence of games
Wins(games) == Cardinality({ k \in 1..Len(games) : games[k].GameWon = "True" })

\* game_win_rate: df.groupby("Game Id") raises KeyError on a table without
\* columns
game_win_rate(df) ==
    IF ~df.columns THEN KeyError("game_win_rate")
    ELSE LET games == dropna(groupby_first(df.rows), "GameWon")
         IN  IF Len(games) = 0 THEN Value("game_win_rate", Frac(0, 1))
             ELSE Value("game_win_rate", Frac(Wins(games) * 100, Len(games)))

\* lines 119-125: the run of results equal to the last one, from the end
RECURSIVE TrailingLoop(_, _, _)
TrailingLoop(results, k, streak) ==
    IF k = 0 THEN streak
    ELSE IF results[k] = results[Len(results)]
         THEN TrailingLoop(results, k - 1, streak + 1)
         ELSE streak

\* lines 128-140: the longest runs; prev is <<>> for None
RECURSIVE LongestLoop(_, _, _, _, _, _)
LongestLoop(results, k, run, prev, longest_win, longest_loss) ==
    IF k > Len(results) THEN <<longest_win, longest_loss>>
    ELSE LET v == results[k]
             run2 == IF prev = <<v>> THEN run + 1 ELSE 1
         IN  LongestLoop(results, k + 1, run2, <<v>>,
                         IF v /\ run2 > longest_win THEN run2 ELSE longest_win,
                         IF ~v /\ run2 > longest_loss THEN run2 ELSE longest_loss)

StreakValue(current, type, win, loss) ==
    [current_streak |-> current, current_type |-> type,
     longest_win |-> win, longest_loss |-> loss]

\* streaks: df.sort_values("Date") raises KeyError on a table without columns
streaks(df) ==
    IF ~df.columns THEN KeyError("streaks")
    ELSE LET games == dropna(groupby_first(sort_values(df.rows)), "GameWon")
             results == [k \in 1..Len(games) |-> games[k].GameWon = "True"]
             longest == LongestLoop(results, 1, 0, <<>>, 0, 0)
         IN  IF Len(games) = 0
             THEN Value("streaks", StreakValue(0, "N/A", 0, 0))
             ELSE Value("streaks",
                        StreakValue(TrailingLoop(results, Len(results), 0),
                                    IF results[Len(results)] THEN "Win" ELSE "Loss",
                                    longest[1], longest[2]))

\* head_to_head: the games of each opponent met in more than one game (the
\* result as a set: its order by Games is left out)
head_to_head(df) ==
    IF ~df.columns THEN KeyError("head_to_head")
    ELSE LET games == groupby_first(df.rows)
             Of(opp) == SelectSeq(games, LAMBDA g : g.OpponentId = opp)
             opps == { games[k].OpponentId : k \in 1..Len(games) }
         IN  Value("head_to_head",
                   { [OpponentId |-> opp, Games |-> Len(Of(opp)),
                      Wins |-> Wins(Of(opp)),
                      Losses |-> Len(Of(opp)) - Wins(Of(opp))] :
                       opp \in { o \in opps : Len(Of(o)) > 1 } })

\* df.groupby(col): per key the number of rows and the sum of "Your Score"
\* (the means of the other columns are left out)
GroupStats(rows, col) ==
    { [key |-> key,
       Rounds |-> Cardinality({ k \in 1..Len(rows) : rows[k][col] = key }),
       ScoreSum |-> LET ks == { k \in 1..Len(rows) :
                                  rows[k][col] = key /\ rows[k].YourScore > 0 }
                    IN  5 * Cardinality(ks)] :
        key \in { rows[k][col] : k \in 1..Len(rows) } }

stats_by_country(df) ==
    IF ~df.columns THEN KeyError("stats_by_country")
    ELSE Value("stats_by_country", GroupStats(df.rows, "Country"))

stats_by_round(df) ==
    IF ~df.columns THEN KeyError("stats_by_round")
    ELSE Value("stats_by_round", GroupStats(df.rows, "RoundNumber"))

stats_by_opponent_country(df) ==
    IF ~df.columns THEN KeyError("stats_by_opponent_country")
    ELSE Value("stats_by_opponent_country",
               GroupStats(df.rows, "OpponentCountry"))

\* rating_history: one entry per game with a rating
rating_history(df) ==
    IF ~df.columns THEN KeyError("rating_history")
    ELSE Value("rating_history",
               dropna(groupby_first(sort_values(df.rows)), "YourRating"))

\* rating_change_per_game: the difference to the game before, without the
\* first game
rating_change_per_game(df) ==
    IF ~df.columns THEN KeyError("rating_change_per_game")
    ELSE LET games == dropna(groupby_first(sort_values(df.rows)), "YourRating")
         IN  Value("rating_change_per_game",
                   [k \in 1..(Len(games) - 1) |->
                      [GameId |-> games[k + 1].GameId,
                       Date |-> games[k + 1].Date,
                       YourRating |-> games[k + 1].YourRating,
                       RatingChange |-> games[k + 1].YourRating[1]
                                          - games[k].YourRating[1]]])

\* dt.to_period(period): the period a date falls in (two dates to a period)
Period(date) == (date + 1) \div 2

\* binned_metrics for "Your Score": tmp["Date"] raises KeyError on a table
\* without columns; per period the sum and the number of rows
binned_metrics(df) ==
    IF ~df.columns THEN KeyError("binned_metrics")
    ELSE Value("binned_metrics",
               { [Period |-> p,
                  Rows |-> Cardinality({ k \in 1..Len(df.rows) :
                                           Period(df.rows[k].Date) = p })] :
                   p \in { Period(df.rows[k].Date) : k \in 1..Len(df.rows) } })

\* games_played_over_time: per period the number of distinct Game Ids
games_played_over_time(df) ==
    IF ~df.columns THEN KeyError("games_played_over_time")
    ELSE Value("games_played_over_time",
               { [Period |-> p,
                  GamesPlayed |-> Cardinality({ df.rows[k].GameId :
                                    k \in { j \in 1..Len(df.rows) :
                                              Period(df.rows[j].Date) = p } })] :
                   p \in { Period(df.rows[k].Date) : k \in 1..Len(df.rows) } })

\* get_stats_overview: zeros for a table without rows (the df.empty test),
\* else the headline numbers (the means over rows are left out)
get_stats_overview(df) ==
    IF df.rows = <<>>
    THEN Value("get_stats_overview",
               [total_games |-> 0, current_rating |-> 0,
                game_win_rate |-> Frac(0, 1)])
    ELSE LET games_df == groupby_first(sort_values(df.rows))
             rating_series == dropna(games_df, "YourRating")
         IN  Value("get_stats_overview",
                   [total_games |-> Len(games_df),
                    current_rating |->
                        IF rating_series # <<>>
                        THEN rating_series[Len(rating_series)].YourRating[1]
                        ELSE 0,
                    game_win_rate |-> game_win_rate(df).value])

Functions ==
    { "stats_by_country", "stats_by_round", "stats_by_opponent_country",
      "rating_history", "rating_change_per_game", "binned_metrics",
      "games_played_over_time", "game_win_rate", "streaks", "head_to_head",
      "get_stats_overview" }

Apply(fn, df) ==
    CASE fn = "stats_by_country" -> stats_by_country(df)
      [] fn = "stats_by_round" -> stats_by_round(df)
      [] fn = "stats_by_opponent_country" -> stats_by_opponent_country(df)
      [] fn = "rating_history" -> rating_history(df)
      [] fn = "rating_change_per_game" -> rating_change_per_game(df)
      [] fn = "binned_metrics" -> binned_metrics(df)
      [] fn = "games_played_over_time" -> games_played_over_time(df)
      [] fn = "game_win_rate" -> game_win_rate(df)
      [] fn = "streaks" -> streaks(df)
      [] fn = "head_to_head" -> head_to_head(df)
      [] fn = "get_stats_overview" -> get_stats_overview(df)

(***************************************************************************)
(* SpecAnalytics: each analytics function on every bounded table           *)
(***************************************************************************)
AnalyticsInit ==
    /\ an_pc = "call"
    /\ an_df \in AnalyticsTables
    /\ an_result = <<>>
    /\ ExtractIdle
    /\ GameIdle
    /\ SyncIdle

AnalyticsCall ==
    /\ an_pc = "call"
    /\ \E fn \in Functions : an_result' = Apply(fn, an_df)
    /\ an_pc' = "done"
    /\ UNCHANGED an_df
    /\ UNCHANGED <<exVars, gmVars, syncVars>>

AnalyticsNext == AnalyticsCall

SpecAnalytics == AnalyticsInit /\ [][AnalyticsNext]_vars

(***************************************************************************)
(* Properties                                                              *)
(***************************************************************************)
RowsOf(df) == { df[k] : k \in 1..Len(df) }

Unique(df) ==
    \A a, b \in 1..Len(df) :
        a # b => ~(df[a].GameId = df[b].GameId /\ df[a].RoundNumber = df[b].RoundNumber)

\* the Game Ids of the table loaded at the start of the run
CachedIds == { df_existing[k].GameId : k \in 1..Len(df_existing) }

\* sync_data has returned a table to its caller
Done == pc = "idle" /\ returned.kind = "value"

\* the run found unseen tokens and is over
Merged == pc = "idle" /\ tokens_to_fetch # <<>>

\* every remote token is a Game Id of the loaded cache (or there is none)
AllSeen == \A k \in 1..Len(remote_tokens) : remote_tokens[k] \in CachedIds

Persisted(l) ==
    CountOf("to_json", l) + CountOf("to_json_failed", l)

\* C1: after any sequence of sync_data runs from an absent cache, no two
\* records of the returned table, nor of the persisted cache, share a
\* (Game Id, Round Number) key.
C1_UniqueKeys ==
    /\ returned.kind = "value" => Unique(returned.table)
    /\ Unique(cache_file.rows)

\* a second run whose feed lists one unseen token twice, merged into a
\* non-empty cache, with duplicate keys dropped and the result persisted
C1_Witness ==
    /\ Done
    /\ runs = 2
    /\ df_existing # <<>>
    /\ Len(tokens_to_fetch) = 2
    /\ tokens_to_fetch[1] = tokens_to_fetch[2]
    /\ Len(df_existing) + Len(new_rows) > Len(returned.table)
    /\ cache_file = Data(to_json(returned.table))

\* C2: when a sync finds no unseen token, sync_data returns the existing
\* table unchanged with count 0, fetches no game detail and does not touch
\* the cache store.
C2_NoOpWhenNothingNew ==
    (Done /\ AllSeen) =>
        /\ returned.table = df_existing
        /\ returned.table = load_cache(cache_file)
        /\ returned.count = 0
        /\ CountOf("get_game_details", log) = 0
        /\ CountOf("save_cache", log) = 0
        /\ Persisted(log) = 0

\* the feed lists tokens and all of them are cached already
C2_Witness ==
    /\ Done
    /\ AllSeen
    /\ remote_tokens # <<>>
    /\ returned.table # <<>>
    /\ returned.count = 0

\* C3: whenever the detail loop produces no flat row, the returned table is
\* the existing table and the cache file is not written.
C3_NoWriteOnZeroRows ==
    (Done /\ tokens_to_fetch # <<>> /\ new_rows = <<>>) =>
        /\ returned.table = df_existing
        /\ Persisted(log) = 0

\* C4: the values passed to progress_cb are non-decreasing, the k-th value
\* is (k-1)/total with k-1 the number of tokens processed before it, one
\* value is reported per item, and a run that processed tokens ends with
\* exactly 1.0, whatever happened to the last token.
C4_Progress ==
    LET total == Len(tokens_to_fetch) IN
    /\ \A k \in 1..Len(progress) :
          /\ progress[k].den > 0
          /\ progress[k].num * total = (k - 1) * progress[k].den
    /\ \A k \in 1..(Len(progress) - 1) :
          progress[k].num * progress[k + 1].den <= progress[k + 1].num * progress[k].den
    /\ pc \in {"fetch", "merge"} => Len(progress) = Len(outcomes)
    /\ Merged => /\ Len(progress) = total + 1
                 /\ progress[total + 1] = Frac(1, 1)

\* two tokens, the last of which failed to fetch: 0/2, 1/2, 1.0
C4_Witness ==
    /\ Done
    /\ Len(outcomes) = 2
    /\ outcomes[2].kind = "fetch_error"
    /\ progress = <<Frac(0, 2), Frac(1, 2), Frac(1, 1)>>

\* C5: when get_player_info fails, sync_data raises at once: no feed page,
\* no game detail, no progress report, no cache-store call, no table.
C5_AuthFailureIsFatal ==
    (log # <<>> /\ log[1] = "get_player_info_failed") =>
        /\ pc = "idle"
        /\ returned = Raised
        /\ Len(log) = 1
        /\ progress = <<>>
        /\ outcomes = <<>>

\* the second run fails to authenticate and leaves the cache of the first
C5_Witness ==
    /\ runs = 2
    /\ returned = Raised
    /\ log = <<"get_player_info_failed">>
    /\ cache_file.state = "data"

\* the tokens handed to get_game_details, in order
Attempted == [k \in 1..Len(outcomes) |-> outcomes[k].token]

RECURSIVE FetchedRows(_)
\* the flat rows of the tokens that transformed, in fetch order
FetchedRows(os) ==
    IF os = <<>> THEN <<>>
    ELSE (IF Head(os).kind = "game" THEN Head(os).rows ELSE <<>>) \o FetchedRows(Tail(os))

\* the first row of rows with the key of row
FirstWithKey(row, rows) ==
    LET m == CHOOSE n \in 1..Len(rows) :
                 /\ rows[n].GameId = row.GameId
                 /\ rows[n].RoundNumber = row.RoundNumber
                 /\ \A q \in 1..(n - 1) :
                        ~(rows[q].GameId = row.GameId /\ rows[q].RoundNumber = row.RoundNumber)
    IN rows[m]

\* C6 as stated: every unseen token is attempted once, in feed order,
\* sync_data does not raise, and the returned table contains the flat rows
\* of every token that transformed.
C6_Original ==
    Merged =>
        /\ returned.kind = "value"
        /\ Attempted = tokens_to_fetch
        /\ \A r \in RowsOf(FetchedRows(outcomes)) : r \in RowsOf(returned.table)

\* C6 amended: every unseen token is attempted once, in feed order,
\* sync_data does not raise, and for every flat row of every token that
\* transformed the returned table holds the first row with that key, in the
\* order cached rows then fetched rows; a cache write that succeeds stores
\* the returned table.
C6_Amended ==
    Merged =>
        /\ returned.kind = "value"
        /\ Attempted = tokens_to_fetch
        /\ \A r \in RowsOf(FetchedRows(outcomes)) :
              FirstWithKey(r, df_existing \o FetchedRows(outcomes)) \in RowsOf(returned.table)
        /\ log[Len(log)] = "to_json" => cache_file = Data(to_json(returned.table))

\* a failed fetch, a failed transform or a null result, followed by a token
\* that transformed and whose rows were persisted
C6_Witness ==
    /\ Merged
    /\ Len(outcomes) = 2
    /\ outcomes[1].kind \in {"fetch_error", "transform_error", "null"}
    /\ outcomes[2].kind = "game"
    /\ outcomes[2].rows # <<>>
    /\ RowsOf(to_json(outcomes[2].rows)) \subseteq RowsOf(cache_file.rows)

\* C7: no game detail is fetched for a token that is a Game Id of the cache
\* loaded at the start of the run.
C7_NoFetchOfCachedGames ==
    \A k \in 1..Len(outcomes) : outcomes[k].token \notin CachedIds

\* the feed lists a cached and an unseen token; only the unseen one is fetched
C7_Witness ==
    /\ Done
    /\ Len(remote_tokens) = 2
    /\ \E k \in 1..2 : remote_tokens[k] \in CachedIds
    /\ Len(outcomes) = 1

RECURSIVE WellFormedIds(_)
\* the gameIds of the qualifying duel payloads of a page, every entry or
\* wrapper of another shape skipped
WellFormedIds(entries) ==
    IF entries = <<>> THEN <<>>
    ELSE LET p == Head(entries).payload
             qualifies(o) == o.gameMode = "Duels" /\ o.hasCGM /\ o.gameId # NoId
             wraps == SelectSeq(p.items, LAMBDA it : it.kind = "wrap" /\ qualifies(it.obj))
             here == CASE p.kind = "dict" /\ qualifies(p.obj) -> <<p.obj.gameId>>
                       [] p.kind = "list" -> [k \in 1..Len(wraps) |-> wraps[k].obj.gameId]
                       [] OTHER -> <<>>
         IN here \o WellFormedIds(Tail(entries))

\* C8: a malformed feed entry does not abort its page: the tokens of the
\* other qualifying entries of the page read last are accumulated.
C8_MalformedEntrySkipped ==
    feed_page.kind = "page" =>
        LET ids == WellFormedIds(feed_page.entries)
            n == Len(remote_tokens)
        IN /\ n >= Len(ids)
           /\ SubSeq(remote_tokens, n - Len(ids) + 1, n) = ids

\* extract_duel_tokens raises on no entry of the page: every payload is a
\* string, every wrapper's payload an object, every duel has a gameId
WellShaped(entries) ==
    \A k \in 1..Len(entries) :
        LET p == entries[k].payload IN
        /\ p.kind # "nonstring"
        /\ p.kind = "dict" =>
              ~(p.obj.gameMode = "Duels" /\ p.obj.hasCGM /\ p.obj.gameId = NoId)
        /\ \A j \in 1..Len(p.items) :
              /\ p.items[j].kind # "strwrap"
              /\ p.items[j].kind = "wrap" =>
                    ~(p.items[j].obj.gameMode = "Duels" /\ p.items[j].obj.hasCGM
                      /\ p.items[j].obj.gameId = NoId)

\* C9: without a limit, extract_duel_tokens returns exactly the gameIds of
\* the qualifying duel payloads (gameMode "Duels" and competitiveGameMode
\* present; for a list, each wrapper's payload), in encounter order, with no
\* reordering or deduplication, and the empty list when nothing qualifies.
C9_ExtractExact ==
    (ex_pc = "done" /\ limit = NoLimit /\ WellShaped(feed_entries)) =>
        ex_result = Ok(WellFormedIds(feed_entries))

\* one direct duel and one batch of a non-duel and a duel: two tokens
C9_Witness ==
    /\ ex_pc = "done"
    /\ limit = NoLimit
    /\ feed_entries =
          << Entry("recent", PDict(Duel("g1"))),
             Entry("recent", PList(<<Wrap(Obj("Classic", TRUE, "g1")), Wrap(Duel("g2"))>>)) >>
    /\ ex_result = Ok(<<"g1", "g2">>)

\* C10: given a limit and at least that many qualifying tokens,
\* extract_duel_tokens returns exactly the first limit of them.
C10_LimitExact ==
    (/\ ex_pc = "done"
     /\ limit # NoLimit
     /\ WellShaped(feed_entries)
     /\ Len(WellFormedIds(feed_entries)) >= limit[1]) =>
        ex_result = Ok(SubSeq(WellFormedIds(feed_entries), 1, limit[1]))

\* the same for a limit of at least 1
C10_PositiveLimit ==
    (/\ ex_pc = "done"
     /\ limit # NoLimit
     /\ limit[1] >= 1
     /\ WellShaped(feed_entries)
     /\ Len(WellFormedIds(feed_entries)) >= limit[1]) =>
        ex_result = Ok(SubSeq(WellFormedIds(feed_entries), 1, limit[1]))

(***************************************************************************)
(* Properties of process_game (SpecGame)                                   *)
(***************************************************************************)
\* process_game has returned or raised
GameCalled == gm_pc \in {"flatten", "done"}

\* the payload has no usable gameId (key missing, or empty)
NoGameId == game_data.gameId \in {NoId, ""}

\* the team of the authenticated player and the other team, as the code
\* identifies them (line 101)
MyTeam ==
    IF game_data.teams[1].players[1].playerId = MyId
    THEN game_data.teams[1] ELSE game_data.teams[2]

OppTeam ==
    IF game_data.teams[1].players[1].playerId = MyId
    THEN game_data.teams[2] ELSE game_data.teams[1]

\* C11: process_game returns None, and does not raise, whenever the payload
\* has fewer than two teams or has no gameId.
C11_NullWithoutTeamsOrId ==
    (GameCalled /\ (Len(game_data.teams) < 2 \/ NoGameId))
        => gm_result = GameNull

\* the part of C11 the code keeps: fewer than two teams, or no gameId on a
\* payload whose first team has a player
C11_NullWhenFirstTeamHasPlayer ==
    (GameCalled
       /\ (\/ Len(game_data.teams) < 2
           \/ NoGameId /\ game_data.teams[1].players # <<>>))
        => gm_result = GameNull

\* C12: process_game returns None, rather than raising, when either of the
\* two teams has zero players.
C12_NullWhenTeamHasNoPlayers ==
    (GameCalled /\ Len(game_data.teams) >= 2
       /\ (\/ game_data.teams[1].players = <<>>
           \/ game_data.teams[2].players = <<>>))
        => gm_result = GameNull

\* C13: gameWon is true exactly when my health > 0 and the opponent's <= 0,
\* false exactly when the opponent's health > 0 and mine <= 0, and null
\* otherwise; it is null whenever a health is missing, never true when my
\* health <= 0, and every flat row carries it unchanged (null stays null).
C13_GameWonFromHealth ==
    (GameCalled /\ gm_result.kind = "game") =>
        LET g == gm_result.game
            mine == MyTeam.health
            theirs == OppTeam.health
            both == mine # None /\ theirs # None
        IN  /\ g.game_won \in {"True", "False", "None"}
            /\ (g.game_won = "True") <=> (both /\ mine[1] > 0 /\ theirs[1] <= 0)
            /\ (g.game_won = "False") <=> (both /\ theirs[1] > 0 /\ mine[1] <= 0)
            /\ (mine = None \/ theirs = None) => g.game_won = "None"
            /\ (mine # None /\ mine[1] <= 0) => g.game_won # "True"
            /\ gm_pc = "done" =>
                 \A k \in 1..Len(gm_rows) : gm_rows[k].GameWon = g.game_won

\* a finished call whose two healths are both zero: the outcome is null and
\* the flat rows carry the null
C13_Witness ==
    /\ gm_pc = "done"
    /\ gm_result.kind = "game"
    /\ MyTeam.health = Some(0)
    /\ OppTeam.health = Some(0)
    /\ gm_rows # <<>>
    /\ \A k \in 1..Len(gm_rows) : gm_rows[k].GameWon = "None"

\* the player of the team has a guess whose roundNumber is rn
HasGuess(team, rn) ==
    \E k \in 1..Len(team.players[1].guesses) :
        team.players[1].guesses[k].roundNumber = rn

\* the rounds that process_game is to emit: the first
\* min(currentRoundNumber, len(rounds)) of the rounds array
Emitted ==
    IF game_data.currentRoundNumber = None THEN Len(game_data.rounds)
    ELSE Min(game_data.currentRoundNumber[1], Len(game_data.rounds))

\* C14: a round for which a player has no guess with the round's roundNumber
\* does not make process_game raise; that player's score, distance and
\* coordinates of the round are 0; without an opponent guess oppScore is 0 and
\* roundWon is yourScore > 0; and the round is still emitted as a row.
C14_MissingGuessIsZero ==
    (GameCalled /\ Len(game_data.teams) >= 2 /\ ~NoGameId
       /\ game_data.teams[1].players # <<>> /\ game_data.teams[2].players # <<>>)
    => /\ gm_result.kind = "game"
       /\ Len(gm_result.game.rounds) = Emitted
       /\ gm_pc = "done" =>
            /\ Len(gm_rows) = Emitted
            /\ \A k \in 1..Len(gm_rows) :
                 LET row == gm_rows[k]
                 IN  /\ ~HasGuess(MyTeam, row.RoundNumber) =>
                            /\ row.YourScore = 0
                            /\ row.YourDistance = 0
                            /\ row.YourLatitude = 0
                            /\ row.YourLongitude = 0
                     /\ ~HasGuess(OppTeam, row.RoundNumber) =>
                            /\ row.OpponentScore = 0
                            /\ row.OpponentDistance = 0
                            /\ row.OpponentLatitude = 0
                            /\ row.OpponentLongitude = 0
                            /\ row.RoundWon = (row.YourScore > 0)

\* a round the opponent never guessed and the player scored in: the row is
\* there, with opponent score 0 and the round won
C14_Witness ==
    /\ gm_pc = "done"
    /\ gm_result.kind = "game"
    /\ \E k \in 1..Len(gm_rows) :
         /\ ~HasGuess(OppTeam, gm_rows[k].RoundNumber)
         /\ HasGuess(MyTeam, gm_rows[k].RoundNumber)
         /\ gm_rows[k].YourScore > 0
         /\ gm_rows[k].OpponentScore = 0
         /\ gm_rows[k].RoundWon

(***************************************************************************)
(* Properties of the analytics functions (SpecAnalytics)                   *)
(***************************************************************************)
\* the function fn has been called on an_df
Called(fn) == an_pc = "done" /\ an_result.fn = fn

\* the distinct games of the table, and each game's outcome and opponent
\* (the same in every row of the game)
GamesOf(df) == { df.rows[k].GameId : k \in 1..Len(df.rows) }

OutcomeOf(df, g) ==
    CHOOSE o \in Outcomes :
        \E k \in 1..Len(df.rows) : df.rows[k].GameId = g /\ df.rows[k].GameWon = o

OpponentOf(df, g) ==
    CHOOSE o \in {"X", "Y"} :
        \E k \in 1..Len(df.rows) :
            df.rows[k].GameId = g /\ df.rows[k].OpponentId = o

Decided(df) == { g \in GamesOf(df) : OutcomeOf(df, g) # "None" }

Won(df) == { g \in GamesOf(df) : OutcomeOf(df, g) = "True" }

\* the win rate the claim defines, against the fraction returned
RightWinRate(df, rate) ==
    IF Decided(df) = {} THEN rate = Frac(0, 1)
    ELSE rate.num * Cardinality(Decided(df))
           = 100 * Cardinality(Won(df)) * rate.den

\* C15: game_win_rate is 100 * (distinct games with outcome true) / (distinct
\* games with a non-null outcome); games with a null outcome count in neither,
\* a game counts once whatever its number of rows, and the result is 0.0 when
\* no game has a non-null outcome.
C15_WinRate ==
    Called("game_win_rate") =>
        /\ ~an_result.raised
        /\ RightWinRate(an_df, an_result.value)

\* the part of C15 the code keeps: every table that has its columns
C15_WinRateWithColumns ==
    (Called("game_win_rate") /\ an_df.columns) =>
        /\ ~an_result.raised
        /\ RightWinRate(an_df, an_result.value)

\* the per-game outcome sequence with nulls dropped, in the order of the
\* game-level reduction
OutcomeSeq(df) ==
    LET ids == Ascending(Decided(df))
    IN  [k \in 1..Len(ids) |-> OutcomeOf(df, ids[k]) = "True"]

\* the largest member of a finite set of numbers
Max(S) == CHOOSE a \in S : \A b \in S : b <= a

\* the lengths of the runs of b in q, and 0
RunLengths(q, b) ==
    { n \in 0..Len(q) :
        n = 0 \/ \E a \in 1..(Len(q) - n + 1) : \A j \in a..(a + n - 1) : q[j] = b }

\* the lengths of the trailing runs of q's last outcome
TrailingLengths(q) ==
    { n \in 1..Len(q) : \A j \in (Len(q) - n + 1)..Len(q) : q[j] = q[Len(q)] }

\* the streak statistics the claim defines for the outcome sequence q
RightStreaks(q, v) ==
    IF q = <<>> THEN v = StreakValue(0, "N/A", 0, 0)
    ELSE /\ v.current_streak = Max(TrailingLengths(q))
         /\ v.current_type = IF q[Len(q)] THEN "Win" ELSE "Loss"
         /\ v.longest_win = Max(RunLengths(q, TRUE))
         /\ v.longest_loss = Max(RunLengths(q, FALSE))

\* C16: over the per-game outcome sequence with nulls dropped, streaks gives
\* the length of the trailing run of the last outcome, its type (Win or
\* Loss), and the longest runs of wins and of losses (0 when there is none);
\* [T, T, F, T, T, T] gives 3 (Win), 3 and 1; zero games give 0, "N/A", 0, 0.
C16_Streaks ==
    Called("streaks") =>
        /\ ~an_result.raised
        /\ RightStreaks(OutcomeSeq(an_df), an_result.value)
        /\ OutcomeSeq(an_df) = <<TRUE, TRUE, FALSE, TRUE, TRUE, TRUE>>
             => an_result.value = StreakValue(3, "Win", 3, 1)

\* the part of C16 the code keeps: every table that has its columns
C16_StreaksWithColumns ==
    (Called("streaks") /\ an_df.columns) =>
        /\ ~an_result.raised
        /\ RightStreaks(OutcomeSeq(an_df), an_result.value)
        /\ OutcomeSeq(an_df) = <<TRUE, TRUE, FALSE, TRUE, TRUE, TRUE>>
             => an_result.value = StreakValue(3, "Win", 3, 1)

\* the games played against opp
Against(df, opp) == { g \in GamesOf(df) : OpponentOf(df, g) = opp }

\* the head-to-head table the claim defines
RightHeadToHead(df) ==
    { [OpponentId |-> opp,
       Games |-> Cardinality(Against(df, opp)),
       Wins |-> Cardinality(Against(df, opp) \cap Won(df)),
       Losses |-> Cardinality(Against(df, opp))
                    - Cardinality(Against(df, opp) \cap Won(df))] :
        opp \in { o \in {"X", "Y"} : Cardinality(Against(df, o)) > 1 } }

\* C17: head_to_head reduces the table to one row per distinct Game Id and
\* returns exactly the opponents met in more than one game, with Games the
\* number of distinct games (null outcomes included), Wins the games won and
\* Losses = Games - Wins; without a repeated opponent the result is empty,
\* not an error.
C17_HeadToHead ==
    Called("head_to_head") =>
        /\ ~an_result.raised
        /\ an_result.value = RightHeadToHead(an_df)

\* the part of C17 the code keeps: every table that has its columns
C17_HeadToHeadWithColumns ==
    (Called("head_to_head") /\ an_df.columns) =>
        /\ ~an_result.raised
        /\ an_result.value = RightHeadToHead(an_df)

\* C18: every analytics function called on the empty table, as load_cache
\* returns it for an absent cache, returns a defined empty or zero result
\* and never raises.
C18_EmptyTableNeverRaises ==
    (an_pc = "done" /\ an_df = EmptyFrame) => ~an_result.raised

\* what the code does with tables without rows: only get_stats_overview
\* answers the table without columns; a table that kept its columns is
\* answered by every function
C18_EmptyTableWithColumns ==
    (an_pc = "done" /\ an_df.rows = <<>>) =>
        (an_result.raised <=>
            (~an_df.columns /\ an_result.fn # "get_stats_overview"))

(***************************************************************************)
(* Properties of the cache store (Spec)                                    *)
(***************************************************************************)
\* the run has loaded the cache and has not returned yet
Running == pc \in {"paginate", "diff", "fetch", "merge"}

\* the run ended with a cache write that failed
WriteFailed == Merged /\ log[Len(log)] = "to_json_failed"

\* C19: the cache store never propagates an I/O failure: load_cache gives
\* the empty table for an absent, unreadable or corrupt file, and a failure
\* inside save_cache is swallowed, so that a sync whose cache write fails
\* still returns the merged table and the new-record count.
C19_CacheFailuresSwallowed ==
    /\ (Running /\ cache_file.state # "data") => df_existing = <<>>
    /\ WriteFailed =>
          /\ returned.kind = "value"
          /\ returned.table = drop_duplicates(Combined(df_existing, new_rows))
          /\ returned.count = Len(tokens_to_fetch)

\* a second run that found the cache file absent or corrupt, loaded the
\* empty table, fetched a match, failed to write, left the file corrupt, and
\* still returned the match's rows and the count
C19_Witness ==
    /\ WriteFailed
    /\ runs = 2
    /\ cache_file = Corrupt
    /\ df_existing = <<>>
    /\ returned.table # <<>>
    /\ returned.count > 0

\* the run ended with a cache write that succeeded
Written == Merged /\ log[Len(log)] = "to_json"

\* C20: a round trip through the cache file changes neither the value nor
\* the type of a record's date: each record of load_cache of the file
\* written by save_cache(T) has the Date value and representation of the
\* corresponding record of the merged table T that sync_data returned, and
\* all records of T share one Date representation.
C20_DateRoundTrip ==
    Written =>
        LET T == returned.table
            L == load_cache(cache_file)
        IN  /\ Len(L) = Len(T)
            /\ \A k \in 1..Len(T) : L[k].Date = T[k].Date
            /\ \A a, b \in 1..Len(T) : T[a].Date.repr = T[b].Date.repr

\* what the code keeps of C20: the records and the instants of their dates
\* survive the round trip; the representation of a date does not
C20_InstantKept ==
    Written =>
        LET T == returned.table
            L == load_cache(cache_file)
        IN  /\ Len(L) = Len(T)
            /\ \A k \in 1..Len(T) :
                 /\ L[k].Date.iso = T[k].Date.iso
                 /\ L[k].Date.repr = "datetime"
                 /\ T[k].Date.repr \in {"str", "datetime"}

(***************************************************************************)
(* Properties of the phases of a run (Spec)                                *)
(***************************************************************************)
\* the phase an event of the log belongs to
PhaseOf(e) ==
    CASE e \in {"get_player_info", "get_player_info_failed"} -> 1
      [] e = "get_feed_page" -> 2
      [] e = "get_game_details" -> 3
      [] e = "save_cache" -> 4
      [] e \in {"to_json", "to_json_failed"} -> 5

\* the events of the run are in the order of the phases: authentication,
\* feed pages, game details, save_cache, the write
PhasesInOrder ==
    /\ \A k \in 1..(Len(log) - 1) : PhaseOf(log[k]) <= PhaseOf(log[k + 1])
    /\ log # <<>> => PhaseOf(log[1]) = 1
    /\ CountOf("get_player_info", log) + CountOf("get_player_info_failed", log) <= 1
    /\ CountOf("get_player_info_failed", log) = 1 => Len(log) = 1
    /\ CountOf("save_cache", log) <= 1
    /\ Persisted(log) <= 1
    /\ CountOf("save_cache", log) = 1 =>
          /\ tokens_to_fetch # <<>>
          /\ CountOf("get_game_details", log) = Len(tokens_to_fetch)
    /\ pc = "idle" \/ returned = NoReturn

\* C21: a run passes through the phases AUTHENTICATE, PAGINATE_TOKENS,
\* DIFF_AGAINST_CACHE, FETCH_DETAILS, MERGE_AND_PERSIST, DONE in this order:
\* no feed page before authentication succeeded, no game detail before the
\* last feed page, at most one cache write per run and only after every
\* detail fetch, and whenever unseen tokens were processed the merged table
\* is persisted before sync_data returns.
C21_Original ==
    /\ PhasesInOrder
    /\ Merged =>
          /\ log[Len(log)] = "to_json"
          /\ cache_file = Data(to_json(returned.table))

\* C21 amended: the same order of phases; whenever unseen tokens were
\* processed save_cache is called once with the merged table before
\* sync_data returns, an empty merged table is not written, and a write that
\* succeeds stores the returned table (a write that fails is swallowed).
C21_Amended ==
    /\ PhasesInOrder
    /\ Merged =>
          /\ CountOf("save_cache", log) = 1
          /\ log[Len(log) - 1] = "save_cache" \/ log[Len(log)] = "save_cache"
          /\ Persisted(log) = 1 <=> returned.table # <<>>
          /\ log[Len(log)] = "to_json" => cache_file = Data(to_json(returned.table))

\* a run through every phase: two feed pages, two game details, one write
C21_Witness ==
    /\ Merged
    /\ log = <<"get_player_info", "get_feed_page", "get_feed_page",
               "get_game_details", "get_game_details", "save_cache", "to_json">>
    /\ cache_file = Data(to_json(returned.table))

(***************************************************************************)
(* Properties of the pagination (Spec)                                     *)
(***************************************************************************)
\* feed pages requested so far in the run
Requests == CountOf("get_feed_page", log)

\* the page ends the pagination: no entries, no cursor, or a first entry
\* before the floor date
Halting(page) ==
    \/ page.entries = <<>>
    \/ page.paginationToken = NoCursor
    \/ page.entries[1].time = "old"

\* remote_tokens ends with the tokens ts
EndsWith(ts) ==
    /\ Len(remote_tokens) >= Len(ts)
    /\ SubSeq(remote_tokens, Len(remote_tokens) - Len(ts) + 1, Len(remote_tokens)) = ts

\* the cursor of every request, and the pages after which the loop goes on
\* or stops (feed_page is the page read last)
CursorsAndHalts ==
    /\ (pc = "paginate" /\ Requests = 0) => pagination_token = NoCursor
    /\ (pc = "paginate" /\ Requests > 0) =>
          /\ feed_page.kind = "page"
          /\ pagination_token = feed_page.paginationToken
          /\ ~Halting(feed_page)
    /\ (pc = "diff" /\ feed_page.kind = "page"
          /\ ~extract_duel_tokens(feed_page.entries, NoLimit).raised)
       => Halting(feed_page)

\* C22: the first feed page is requested without a cursor, every later page
\* with the cursor the page before returned; pagination halts as soon as a
\* page has no entries, returns no cursor, or has a first entry before the
\* floor date 2023-01-01; the duel tokens of the page that triggers the halt
\* are still accumulated; only the first entry of a page can trigger the
\* floor-date halt.
C22_Pagination ==
    /\ CursorsAndHalts
    /\ (pc = "diff" /\ feed_page.kind = "page" /\ Halting(feed_page))
       => EndsWith(WellFormedIds(feed_page.entries))

\* the part of C22 the code keeps: the tokens of a halting page whose
\* extraction returns are accumulated
C22_PaginationWhenExtractionReturns ==
    /\ CursorsAndHalts
    /\ (pc = "diff" /\ feed_page.kind = "page" /\ Halting(feed_page)
          /\ ~extract_duel_tokens(feed_page.entries, NoLimit).raised)
       => /\ EndsWith(WellFormedIds(feed_page.entries))
          /\ EndsWith(extract_duel_tokens(feed_page.entries, NoLimit).tokens)

\* pages the lemma is about: a second page that halts on its old first
\* entry and whose token is accumulated; and a page with a later old entry
\* after which the loop went on
C22_HaltOnOldFirstEntry ==
    /\ pc = "diff"
    /\ Requests = 2
    /\ feed_page.kind = "page"
    /\ feed_page.paginationToken # NoCursor
    /\ feed_page.entries # <<>>
    /\ feed_page.entries[1].time = "old"
    /\ remote_tokens # <<>>
    /\ remote_tokens[Len(remote_tokens)] = "g1"

C22_LaterOldEntryGoesOn ==
    /\ pc = "paginate"
    /\ Requests = 1
    /\ Len(feed_page.entries) = 2
    /\ feed_page.entries[2].time = "old"

(***************************************************************************)
(* Properties of the ratings and the rounds of a game (SpecGame)           *)
(***************************************************************************)
\* the rating the claim defines for a player, against the rating r found
RightRating(player, r) ==
    /\ player.competitive # None => r = player.competitive
    /\ (player.competitive = None /\ player.ranked # None) => r = player.ranked
    /\ (player.competitive = None /\ player.ranked = None) =>
          /\ (player.rating # None /\ player.rating # Some(0)) => r = player.rating
          /\ (player.rating = None \/ player.rating = Some(0)) => r = None

\* C23: _extract_rating gives the first available of the competitive-progress
\* ratingAfter, the ranked-system-progress ratingAfter and the raw rating
\* field, the raw field only when it is present and nonzero; when none is
\* available the result is null, never 0, and the null reaches the flat rows
\* unchanged.
C23_RatingOrder ==
    (GameCalled /\ gm_result.kind = "game") =>
        /\ RightRating(MyTeam.players[1], gm_result.game.your_rating)
        /\ RightRating(OppTeam.players[1], gm_result.game.opponent_rating)
        /\ gm_pc = "done" =>
             \A k \in 1..Len(gm_rows) :
                 /\ gm_rows[k].YourRating = gm_result.game.your_rating
                 /\ gm_rows[k].OpponentRating = gm_result.game.opponent_rating

\* a game whose opponent has the placement rating 0 and no progress rating:
\* the rows carry null for the opponent and the player's own rating
C23_Witness ==
    /\ gm_pc = "done"
    /\ gm_result.kind = "game"
    /\ OppTeam.players[1].competitive = None
    /\ OppTeam.players[1].ranked = None
    /\ OppTeam.players[1].rating = Some(0)
    /\ MyTeam.players[1].competitive = None
    /\ MyTeam.players[1].ranked = Some(800)
    /\ gm_rows # <<>>
    /\ \A k \in 1..Len(gm_rows) :
         gm_rows[k].OpponentRating = None /\ gm_rows[k].YourRating = Some(800)

\* C24: no two rounds of a GameResult have the same roundNumber, for every
\* payload process_game accepts (a rounds array that repeats or omits
\* roundNumber included), and the number of rounds emitted is
\* min(currentRoundNumber, len(rounds)).
C24_UniqueRounds ==
    (GameCalled /\ gm_result.kind = "game") =>
        LET rounds == gm_result.game.rounds
        IN  /\ \A a, b \in 1..Len(rounds) :
                 a # b => rounds[a].round_number # rounds[b].round_number
            /\ Len(rounds) = Emitted

\* the part of C24 the code keeps: the number of rounds, and their numbers
\* as the payload gives them (the position where the key is missing)
C24_RoundsAsGiven ==
    (GameCalled /\ gm_result.kind = "game") =>
        LET rounds == gm_result.game.rounds
        IN  /\ Len(rounds) = Emitted
            /\ \A k \in 1..Len(rounds) :
                 rounds[k].round_number =
                     IF game_data.rounds[k].roundNumber = None THEN k
                     ELSE game_data.rounds[k].roundNumber[1]

(***************************************************************************)
(* Properties of the game-level reduction (SpecAnalytics)                  *)
(***************************************************************************)
DateOfGame(df, g) ==
    CHOOSE d \in 1..(MaxGames + LongGames) :
        \E k \in 1..Len(df.rows) : df.rows[k].GameId = g /\ df.rows[k].Date = d

RatingOfGame(df, g) ==
    CHOOSE x \in { df.rows[k].YourRating : k \in 1..Len(df.rows) } :
        \E k \in 1..Len(df.rows) : df.rows[k].GameId = g /\ df.rows[k].YourRating = x

\* the game of the set S played last
Latest(df, S) == CHOOSE g \in S : \A h \in S : DateOfGame(df, h) <= DateOfGame(df, g)

Rated(df) == { g \in GamesOf(df) : RatingOfGame(df, g) # None }

\* C25: the game-level reduction of streaks, rating_history,
\* rating_change_per_game and get_stats_overview has one entry per distinct
\* Game Id, in ascending order of the games' dates, whatever the order of the
\* Game Ids and of the rows; so the current streak ends at the most recent
\* game and the current rating is that of the latest rated game.
C25_ReductionInDateOrder ==
    (an_pc = "done" /\ an_df.rows # <<>>) =>
        /\ an_result.fn \in {"rating_history", "rating_change_per_game"} =>
             LET v == an_result.value
             IN  /\ \A a, b \in 1..Len(v) : a < b => v[a].Date < v[b].Date
                 /\ an_result.fn = "rating_history" =>
                      Len(v) = Cardinality(Rated(an_df))
        /\ an_result.fn = "streaks" =>
             (Decided(an_df) # {} =>
                 an_result.value.current_type =
                     IF OutcomeOf(an_df, Latest(an_df, Decided(an_df))) = "True"
                     THEN "Win" ELSE "Loss")
        /\ an_result.fn = "get_stats_overview" =>
             /\ an_result.value.total_games = Cardinality(GamesOf(an_df))
             /\ Rated(an_df) # {} =>
                  an_result.value.current_rating
                      = RatingOfGame(an_df, Latest(an_df, Rated(an_df)))[1]

\* the part of C25 the code keeps: one entry per distinct Game Id, in
\* ascending order of the Game Ids
C25_ReductionInIdOrder ==
    (an_pc = "done" /\ an_df.rows # <<>>) =>
        /\ an_result.fn \in {"rating_history", "rating_change_per_game"} =>
             LET v == an_result.value
             IN  \A a, b \in 1..Len(v) : a < b => v[a].GameId < v[b].GameId
        /\ an_result.fn = "rating_history" =>
             Len(an_result.value) = Cardinality(Rated(an_df))
        /\ an_result.fn = "get_stats_overview" =>
             an_result.value.total_games = Cardinality(GamesOf(an_df))

\* the rating deltas the claim defines: the rated games in the sequence of
\* the reduction, each but the first with the difference to the one before
RightRatingChanges(df, v) ==
    LET ids == Ascending(Rated(df))
    IN  /\ Len(v) = IF Len(ids) = 0 THEN 0 ELSE Len(ids) - 1
        /\ \A k \in 1..Len(v) :
             /\ v[k].GameId = ids[k + 1]
             /\ v[k].YourRating = RatingOfGame(df, ids[k + 1])
             /\ v[k].RatingChange = RatingOfGame(df, ids[k + 1])[1]
                                      - RatingOfGame(df, ids[k])[1]

\* C26: rating_change_per_game drops the games with a null rating before
\* differencing and returns, for the remaining n games in sequence, exactly
\* max(0, n - 1) rows, the row of the k-th game (k >= 2) carrying its rating
\* minus the rating of the game before; the first game has no row, and a
\* null-rated game between two rated games neither gives a null delta nor
\* splits one.
C26_RatingChanges ==
    Called("rating_change_per_game") =>
        /\ ~an_result.raised
        /\ RightRatingChanges(an_df, an_result.value)

\* the part of C26 the code keeps: every table that has its columns
C26_RatingChangesWithColumns ==
    (Called("rating_change_per_game") /\ an_df.columns) =>
        /\ ~an_result.raised
        /\ RightRatingChanges(an_df, an_result.value)

\* a table the lemma is about: game 2 has no rating, games 1 and 3 have one,
\* and the only delta is that of game 3 against game 1
C26_NullRatedBetween ==
    /\ Called("rating_change_per_game")
    /\ GamesOf(an_df) = {1, 2, 3}
    /\ Rated(an_df) = {1, 3}
    /\ Len(an_result.value) = 1
    /\ an_result.value[1].GameId = 3
    /\ an_result.value[1].RatingChange # 0

(***************************************************************************)
(* Properties of repeated runs (Spec)                                      *)
(***************************************************************************)
\* the run reads the feed of the run before, which was a clean run
SameFeedAgain == run_before.clean /\ remote_tokens = run_before.tokens

\* C27: a second sync_data run against an unchanged feed and the cache the
\* first run wrote, where every token the first run attempted gave at least
\* one flat row with the token as its Game Id, fetches no game detail, does
\* not write the cache, and returns the count 0 and the same set of
\* (Game Id, Round Number) keys as the first run.
C27_SecondRunIsNoOp ==
    (Done /\ SameFeedAgain) =>
        /\ CountOf("get_game_details", log) = 0
        /\ CountOf("save_cache", log) = 0
        /\ Persisted(log) = 0
        /\ returned.count = 0
        /\ KeysOf(returned.table) = run_before.keys

\* a second run over the feed of a first run that fetched two matches
C27_Witness ==
    /\ Done
    /\ SameFeedAgain
    /\ runs = 2
    /\ Len(remote_tokens) = 2
    /\ remote_tokens[1] # remote_tokens[2]
    /\ returned.count = 0
    /\ returned.table # <<>>

\* the answer to a feed request that ends pagination with an exception: the
\* request raised, or a duel entry of the page has no gameId
PageFailed(page) ==
    \/ page.kind = "error"
    \/ /\ page.kind = "page"
       /\ extract_duel_tokens(page.entries, NoLimit).raised

\* C28: when fetching a feed page or extracting its tokens raises during
\* pagination, sync_data does not fail: pagination stops at that page, the
\* tokens of the pages read before are kept as they are, none of the failed
\* page is added, and the run goes on to diff, fetch and merge those tokens.
C28_PaginationFailureIsNotFatal ==
    /\ [][ (pc = "paginate" /\ PageFailed(feed_page')) =>
               /\ remote_tokens' = remote_tokens
               /\ pc' = "diff"
               /\ returned' = returned
               /\ returned'.kind # "raised" ]_vars
    /\ [](pc \in {"fetch", "merge"} =>
               /\ tokens_to_fetch = FilterNew(remote_tokens, existing_ids(df_existing))
               /\ returned.kind # "raised")
    /\ [](Merged => /\ returned.kind = "value"
                    /\ Attempted = FilterNew(remote_tokens, existing_ids(df_existing)))

\* the second feed request failed after the first page gave an unseen token,
\* and the run is about to diff it
C28_Witness ==
    /\ pc = "diff"
    /\ PageFailed(feed_page)
    /\ CountOf("get_feed_page", log) = 2
    /\ FilterNew(remote_tokens, existing_ids(df_existing)) # <<>>

\* the same when the page arrived and a duel entry in it has no gameId
C28_ExtractionFailed ==
    /\ pc = "diff"
    /\ feed_page.kind = "page"
    /\ PageFailed(feed_page)
    /\ remote_tokens # <<>>

(***************************************************************************)
(* Properties of the merge (Spec)                                          *)
(***************************************************************************)
\* the cached rows followed by the rows fetched in this run, in fetch order
RowsInOrder == df_existing \o FetchedRows(outcomes)

\* a row fetched in this run has the key of a cached row and other values
CachedKeyFetchedAgain ==
    \E k \in 1..Len(df_existing), n \in 1..Len(FetchedRows(outcomes)) :
        /\ SameKey(df_existing[k], FetchedRows(outcomes)[n])
        /\ df_existing[k].Val # FetchedRows(outcomes)[n].Val

\* two rows fetched in this run for one token have one key and other values
TokenFetchedTwice ==
    \E a, b \in 1..Len(outcomes) :
        /\ a < b
        /\ outcomes[a].token = outcomes[b].token
        /\ \E x \in 1..Len(outcomes[a].rows), y \in 1..Len(outcomes[b].rows) :
              /\ SameKey(outcomes[a].rows[x], outcomes[b].rows[y])
              /\ outcomes[a].rows[x] # outcomes[b].rows[y]

\* C29: sync_data never removes or replaces cached records: every row of the
\* cache loaded at the start of the run is in the returned table with its
\* values, the returned table has one row per (Game Id, Round Number) key,
\* and that row is the earliest with the key among the cached rows followed
\* by the fetched rows in fetch order.
C29_CachedRowsSurvive ==
    Done =>
        /\ \A k \in 1..Len(df_existing) : df_existing[k] \in RowsOf(returned.table)
        /\ Unique(returned.table)
        /\ \A j \in 1..Len(returned.table) :
              returned.table[j] = FirstWithKey(returned.table[j], RowsInOrder)
        /\ KeysOf(returned.table) = KeysOf(RowsInOrder)

\* a second run fetched a match whose rows have the key of a cached row and
\* other values
C29_Witness ==
    /\ Done
    /\ Merged
    /\ df_existing # <<>>
    /\ CachedKeyFetchedAgain

\* a run fetched a token the feed listed twice, with differing rows
C29_TokenListedTwice ==
    /\ Done
    /\ Merged
    /\ TokenFetchedTwice

(***************************************************************************)
(* Properties of the returned count (Spec)                                 *)
(***************************************************************************)
\* the unseen tokens of the feed, one per occurrence
Unseen == FilterNew(remote_tokens, CachedIds)

\* the rows the returned table has more than the loaded cache
RowsAdded == Len(returned.table) - Len(df_existing)

\* the Game Ids the returned table has more than the loaded cache
GamesAdded ==
    Cardinality({ returned.table[k].GameId : k \in 1..Len(returned.table) } \ CachedIds)

\* C30: the count sync_data returns is the number of unseen tokens it
\* attempted, one per occurrence in the feed and failed ones included, not
\* the number of games or rows added; it is 0 exactly when the feed listed
\* no unseen token.
C30_CountIsTokensAttempted ==
    Done =>
        /\ returned.count = Len(Unseen)
        /\ returned.count = Len(outcomes)
        /\ Attempted = Unseen
        /\ (returned.count = 0) <=> (Unseen = <<>>)

\* a run attempted two unseen tokens, one failed, and the count is neither
\* the number of rows nor the number of games added
C30_Witness ==
    /\ Done
    /\ returned.count = 2
    /\ \E k \in 1..Len(outcomes) : outcomes[k].kind \in {"fetch_error", "transform_error"}
    /\ RowsAdded # returned.count
    /\ GamesAdded # returned.count

\* a token listed twice is counted twice though it adds one game
C30_ListedTwiceCountedTwice ==
    /\ Done
    /\ returned.count = 2
    /\ remote_tokens[1] = remote_tokens[2]
    /\ GamesAdded = 1

====
